---- MODULE Spec2Model ----
(***************************************************************************)
(* Model of ai_diffusion/server.py: the Server class that probes, installs *)
(* and runs the ComfyUI backend.                                           *)
(*                                                                         *)
(* The filesystem is abstracted to what the code observes: the status of   *)
(* the directories it searches, the custom node folders, the model files   *)
(* and the cached archives.  Every coroutine is cut at its await points.   *)
(***************************************************************************)
EXTENDS Integers, Sequences, FiniteSets, TLC

None == "None"

\* None, for a field that otherwise holds a command line, a url, a child or a
\* task.
NoCmd  == <<>>
NoUrl  == <<"None">>
NoProc == 0
NoTask == [created |-> FALSE, proc |-> 0, cancelled |-> FALSE]

\* ------------------------------------------------------------------------
\* Catalog (module-level constants of server.py)

required_custom_nodes ==
    << [name |-> "ControlNet Preprocessors", folder |-> "comfyui_controlnet_aux"],
       [name |-> "IP-Adapter",               folder |-> "IPAdapter-ComfyUI"],
       [name |-> "External Tooling Nodes",   folder |-> "comfyui-tooling-nodes"] >>

required_models ==
    << [name |-> "ControlNet Inpaint", folder |-> "models/controlnet",
        filename |-> "control_v11p_sd15_inpaint.safetensors"],
       [name |-> "CLIP Vision model",  folder |-> "models/clip_vision/SD1.5",
        filename |-> "pytorch_model.bin"],
       [name |-> "IP-Adapter model",   folder |-> "custom_nodes/IPAdapter-ComfyUI/models",
        filename |-> "ip-adapter_sd15.bin"] >>

default_checkpoints ==
    << [name |-> "Realistic Vision", folder |-> "models/checkpoints",
        filename |-> "realisticVisionV51_v51VAE.safetensors"],
       [name |-> "DreamShaper",      folder |-> "models/checkpoints",
        filename |-> "dreamshaper_8.safetensors"] >>

Names(catalog) == [i \in 1..Len(catalog) |-> catalog[i].name]

_all_resources ==
    Names(required_custom_nodes) \o Names(required_models) \o Names(default_checkpoints)

ServerState ==
    {"not_installed", "missing_resources", "installing", "stopped", "starting", "running"}

\* ------------------------------------------------------------------------
\* Filesystem abstraction

\* Directories the probe searches.  A directory is "absent", "partial" (it
\* exists but lacks one of the marker files searched for) or "complete".
PathRoot      == "path"
PathComfyUI   == "path/ComfyUI"
PathPython    == "path/python"
PathComfyPy   == "path/ComfyUI/python"
PathEmbeded   == "path/python_embeded"
PathOutside   == "path/.."

DirStatus == {"absent", "partial", "complete"}

Range(s) == {s[i] : i \in DOMAIN s}

NodeFolders == {required_custom_nodes[i].folder : i \in DOMAIN required_custom_nodes}
ModelFiles  == {required_models[i].filename : i \in DOMAIN required_models}
CheckpointFiles == {default_checkpoints[i].filename : i \in DOMAIN default_checkpoints}

\* The custom node folder a resource's folder lies in, or None
\* (Path("custom_nodes/IPAdapter-ComfyUI/models") is inside a node folder).
EnclosingNode(r) ==
    IF r.folder = "custom_nodes/IPAdapter-ComfyUI/models" THEN "IPAdapter-ComfyUI" ELSE None

\* A filesystem snapshot is well formed when nothing exists below a
\* directory that does not exist.
ComfyDirOf(d) ==
    IF d.dirs[PathRoot] = "complete" THEN PathRoot ELSE PathComfyUI

DiskOK(d) ==
    /\ d.dirs[PathRoot] # "absent" \/ \A p \in DOMAIN d.dirs : d.dirs[p] = "absent"
    /\ d.dirs[PathComfyUI] = "absent" => d.dirs[PathComfyPy] = "absent"
    /\ d.dirs[ComfyDirOf(d)] = "absent" =>
          d.nodes = {} /\ d.files = {}
    /\ \A i \in DOMAIN required_models :
          LET r == required_models[i] IN
          (r.filename \in d.files /\ EnclosingNode(r) # None) => EnclosingNode(r) \in d.nodes

Exists(d, p) == p \in DOMAIN d.dirs /\ d.dirs[p] # "absent"
HasMarkers(d, p) == p \in DOMAIN d.dirs /\ d.dirs[p] = "complete"

\* ------------------------------------------------------------------------
\* Probe helpers

\* _find_component: the first search path that exists with all its marker
\* files, or None.
_find_component(d, search_paths) ==
    LET hits == {i \in DOMAIN search_paths : HasMarkers(d, search_paths[i])} IN
    IF hits = {} THEN None
    ELSE search_paths[CHOOSE i \in hits : \A j \in hits : i <= j]

\* _find_program: shutil.which(command)
_find_program(d, command) ==
    IF command \in d.programs THEN <<"PATH", command>> ELSE NoCmd

Parent(p) ==
    CASE p = PathComfyUI -> PathRoot
      [] p = PathRoot    -> PathOutside
      [] OTHER           -> PathOutside

Sub(p, name) ==
    CASE p = PathRoot /\ name = "ComfyUI"        -> PathComfyUI
      [] p = PathRoot /\ name = "python"         -> PathPython
      [] p = PathRoot /\ name = "python_embeded" -> PathEmbeded
      [] p = PathComfyUI /\ name = "python"      -> PathComfyPy
      [] OTHER                                   -> PathOutside

has_python(s) == s._python_cmd # NoCmd /\ s._pip_cmd # NoCmd
has_comfy(s)  == s._comfy_dir # None

\* [x.name for x in catalog if ...]: the names of the entries whose index is
\* in keep, in the order of the catalog
NamesAt(catalog, keep) ==
    LET F[i \in 0..Len(catalog)] ==
          IF i = 0 THEN <<>>
          ELSE IF i \in keep THEN Append(F[i-1], catalog[i].name) ELSE F[i-1]
    IN F[Len(catalog)]

\* A custom node folder is never found.
NodeNeverExists(d, pkg) == FALSE

NodeExists(d, pkg) == pkg.folder \in d.nodes
FileExists(d, r)   == r.filename \in d.files

\* ------------------------------------------------------------------------
\* Server.check_install.  Of the Server it reads self.path and the fields it
\* has assigned before; missing_resources is a Python list, an object that
\* += extends in place, so the model keeps with its items whether it is the
\* module-level list _all_resources itself.

comfy_search_paths == <<PathRoot, Sub(PathRoot, "ComfyUI")>>

python_search_paths(comfy_dir) ==
    <<Sub(PathRoot, "python")>> \o
    (IF comfy_dir # None
     THEN <<Sub(comfy_dir, "python"), Sub(Parent(comfy_dir), "python"),
            Sub(Parent(comfy_dir), "python_embeded")>>
     ELSE <<>>)

\* lines 172-189: the resolved paths
probe_paths(d) ==
    LET comfy_dir   == _find_component(d, comfy_search_paths)
        python_path == _find_component(d, python_search_paths(comfy_dir))
    IN [_comfy_dir  |-> comfy_dir,
        _python_cmd |-> IF python_path = None THEN _find_program(d, "python")
                        ELSE <<python_path, "python">>,
        _pip_cmd    |-> IF python_path = None THEN _find_program(d, "pip")
                        ELSE <<python_path, "Scripts/pip">>]

\* The short circuit taken only when neither component is resolved.
probe_short_circuit_neither(s) == ~has_comfy(s) /\ ~has_python(s)

\* line 191: the short circuit to not_installed
probe_short_circuit(s) == ~(has_comfy(s) /\ has_python(s))

\* The required items listed with the models before the custom nodes.
missing_required_models_first(d) ==
    NamesAt(required_models,
            {i \in DOMAIN required_models : ~FileExists(d, required_models[i])}) \o
    NamesAt(required_custom_nodes,
            {i \in DOMAIN required_custom_nodes : ~NodeExists(d, required_custom_nodes[i])})

\* lines 196-207: absent required custom nodes, then absent required models
missing_required(d) ==
    NamesAt(required_custom_nodes,
            {i \in DOMAIN required_custom_nodes : ~NodeExists(d, required_custom_nodes[i])}) \o
    NamesAt(required_models,
            {i \in DOMAIN required_models : ~FileExists(d, required_models[i])})

\* lines 214-218: absent optional checkpoints
missing_optional(d) ==
    NamesAt(default_checkpoints,
            {i \in DOMAIN default_checkpoints : ~FileExists(d, default_checkpoints[i])})

\* The state decided after the optional checkpoints are appended.
missing_with_optional(d) ==
    missing_required(d) \o
    NamesAt(default_checkpoints,
            {i \in DOMAIN default_checkpoints : ~FileExists(d, default_checkpoints[i])})

\* lines 196-208: the list as it stands when the state is decided, before
\* the optional checkpoints are appended
missing_when_classified(d) == missing_required(d)

\* lines 208-211
probe_classify(missing) ==
    IF Len(missing) > 0 THEN "missing_resources" ELSE "stopped"

\* A list object: its items, and whether it is the module-level list.
ListObject(items, shared) == [items |-> items, shared |-> shared]

\* The field goes on referring to the list of the probe before.
missing_kept(prev) == prev

\* line 169: self.missing_resources = [] binds the field to a new list
missing_reset(prev) == ListObject(<<>>, FALSE)

\* lines 168-218, for a Server whose missing_resources refers to prev, with
\* the module-level list holding catalog, on the snapshot d.  Lines 201, 203
\* and 214 extend the list the field refers to (list.__iadd__); line 193
\* binds the field to the module-level list.
check_install_on(prev, catalog, d) ==
    LET s  == probe_paths(d)
        m0 == missing_reset(prev)
        m1 == m0.items \o missing_when_classified(d)
        m2 == m0.items \o missing_required(d) \o missing_optional(d)
    IN IF probe_short_circuit(s)
       THEN [state |-> "not_installed", missing_resources |-> catalog,
             shares_catalog |-> TRUE, all_resources |-> catalog,
             _comfy_dir |-> s._comfy_dir, _python_cmd |-> s._python_cmd,
             _pip_cmd |-> s._pip_cmd]
       ELSE [state |-> probe_classify(m1), missing_resources |-> m2,
             shares_catalog |-> m0.shared,
             all_resources |-> IF m0.shared THEN m2 ELSE catalog,
             _comfy_dir |-> s._comfy_dir, _python_cmd |-> s._python_cmd,
             _pip_cmd |-> s._pip_cmd]

\* check_install() as Server.__init__ calls it (line 166): the module-level
\* list is as defined, and the new Server has no list yet.
check_install(d) == check_install_on(ListObject(<<>>, FALSE), _all_resources, d)

\* ------------------------------------------------------------------------
\* Backend output.  A line of standard output is a sequence of tokens, so
\* that strip, startswith and split act on it as they do on the text.

MARKER == "To see the GUI go to:"
SPACE  == " "
HTTP   == "http://"

\* Lines the backend may print.
Lines ==
    { <<MARKER, SPACE, HTTP, "localhost:9000">>,
      <<SPACE, MARKER, SPACE, HTTP, "localhost:9000", SPACE>>,
      <<"Starting server">>,
      <<"[INFO]", SPACE, MARKER, SPACE, HTTP, "localhost:9000">> }

\* str.strip()
strip(text) ==
    LET keep == {i \in DOMAIN text : text[i] # SPACE} IN
    IF keep = {} THEN <<>>
    ELSE LET lo == CHOOSE i \in keep : \A j \in keep : i <= j
             hi == CHOOSE i \in keep : \A j \in keep : j <= i
         IN SubSeq(text, lo, hi)

\* str.startswith(prefix), for a one-token prefix
startswith(text, prefix) == Len(text) >= 1 /\ text[1] = prefix

\* text.split(sep)[-1]: what follows the last sep, the whole text without one
split_last(text, sep) ==
    LET at == {i \in DOMAIN text : text[i] = sep} IN
    IF at = {} THEN text
    ELSE SubSeq(text, (CHOOSE i \in at : \A j \in at : j <= i) + 1, Len(text))

\* A readiness test that looks for the marker anywhere in the line.
contains_marker(text) == \E i \in DOMAIN text : text[i] = MARKER

\* line 368: the readiness test start() applies to a stripped line
is_ready_line(text) == startswith(text, MARKER)

\* ------------------------------------------------------------------------
\* State

\* Child processes alive or referred to at the same time.
MaxProcs == 2

ProcIds == 1..MaxProcs

VARIABLES
    is_windows,         \* _is_windows, fixed for the process
    overlap,            \* how many calls the owner of the Server lets overlap
    disk,               \* the filesystem snapshot
    state,              \* Server.state
    url,                \* Server.url
    missing_resources,  \* Server.missing_resources (the items of the list)
    shares_catalog,     \* whether that list is the module-level list itself
    all_resources,      \* the items of the module-level list _all_resources
    _python_cmd,        \* Server._python_cmd
    _pip_cmd,           \* Server._pip_cmd
    _comfy_dir,         \* Server._comfy_dir
    _process,           \* Server._process: None, or the child it refers to
    _task,              \* Server._task: None, or the task running run()
    procs,              \* the backend children spawned by start()
    inst,               \* the install() call in flight
    opt,                \* the install_optional() call in flight
    st,                 \* the start() call in flight
    sp,                 \* the stop() call in flight
    last                \* what the last step delivered to a caller or read

serverVars == <<state, url, missing_resources, shares_catalog, all_resources,
                _python_cmd, _pip_cmd, _comfy_dir, _process, _task>>
callVars == <<inst, opt, st, sp>>
vars == <<is_windows, overlap, disk, serverVars, procs, callVars, last>>

Idle == [pc |-> "idle"]

\* Calls suspended at an await.
InFlight ==
    {c \in {"install", "install_optional", "start", "stop"} :
        CASE c = "install"          -> inst.pc # "idle"
          [] c = "install_optional" -> opt.pc # "idle"
          [] c = "start"            -> st.pc # "idle"
          [] c = "stop"             -> sp.pc # "idle"}

\* At most this many calls are suspended at the same time in the behaviours
\* of SpecRun (an installed backend), and at most this many in the
\* behaviours of Spec and SpecProbe.  A call that ends without suspending
\* counts in neither.
MaxInFlight == 2
MaxWithInstall == 1

\* The event loop runs another call only while every call in flight is
\* suspended at an await: install() in a download or in a subprocess, the
\* other calls wherever the model cuts them.
AtAwait == inst.pc \in {"idle", "download", "download_pip", "exec_pip", "exec"}

MayCall == AtAwait /\ Cardinality(InFlight) < overlap

\* What the step just taken delivered: a call returned, or it raised (why
\* names the exception), or start() read a line of output, or nothing.
NoLine == <<>>
Ended(op, result, why) == [op |-> op, result |-> result, why |-> why, line |-> NoLine]
Quiet == Ended("", "", "")
ReadLine(line, result) == [op |-> "start", result |-> result, why |-> "", line |-> line]

\* An assertion that lets every state pass.
asserts_nothing(s) == TRUE

\* line 312: the assertion of install()
install_asserts(s) == s \in {"not_installed", "missing_resources"}

\* line 356: the assertion of start()
start_asserts(s) == s \in {"stopped", "missing_resources"}

\* line 407: the assertion of stop()
stop_asserts(s) == s = "running"

\* A call whose assertion fails: AssertionError reaches the caller before
\* anything is assigned.  Such a call never suspends.
Refused(op) ==
    /\ AtAwait
    /\ last' = Ended(op, "raise", "AssertionError")
    /\ UNCHANGED <<is_windows, overlap, disk, serverVars, procs, callVars>>

\* The assignments of check_install, for the snapshot d.
Probe(d) ==
    LET r == check_install_on(ListObject(missing_resources, shares_catalog),
                              all_resources, d) IN
    /\ state' = r.state
    /\ missing_resources' = r.missing_resources
    /\ shares_catalog' = r.shares_catalog
    /\ all_resources' = r.all_resources
    /\ _comfy_dir' = r._comfy_dir
    /\ _python_cmd' = r._python_cmd
    /\ _pip_cmd' = r._pip_cmd

\* ------------------------------------------------------------------------
\* The backend child processes

Free       == [status |-> "free", stdout |-> "eof", stderr |-> "eof"]
NewProcess == [status |-> "alive", stdout |-> "open", stderr |-> "open"]
Exited     == [status |-> "exited", stdout |-> "eof", stderr |-> "eof"]
Orphan     == [status |-> "alive", stdout |-> "eof", stderr |-> "eof"]

Alive(ps, p) == p # NoProc /\ ps[p].status = "alive"

\* References to a child: the field, the task's streams, the awaits in flight.
Refs(process, task, start, stop) ==
    {process, task.proc,
     IF "proc" \in DOMAIN start THEN start.proc ELSE NoProc,
     IF "proc" \in DOMAIN stop THEN stop.proc ELSE NoProc} \ {NoProc}

\* An exited child nothing refers to is forgotten, and nothing reads the
\* output of a live one nothing refers to.
Reap(ps, refs) ==
    [i \in ProcIds |-> IF i \in refs THEN ps[i]
                       ELSE IF ps[i].status = "alive" THEN Orphan ELSE Free]

\* Server.__init__: class defaults, then check_install()
Constructed(d) ==
    LET r == check_install(d) IN
    /\ disk = d
    /\ state = r.state
    /\ missing_resources = r.missing_resources
    /\ shares_catalog = r.shares_catalog
    /\ all_resources = r.all_resources
    /\ _comfy_dir = r._comfy_dir
    /\ _python_cmd = r._python_cmd
    /\ _pip_cmd = r._pip_cmd
    /\ url = NoUrl
    /\ _process = NoProc
    /\ _task = NoTask
    /\ procs = [i \in ProcIds |-> Free]
    /\ inst = Idle /\ opt = Idle /\ st = Idle /\ sp = Idle
    /\ last = Ended("__init__", "return", "")

\* A child exits on its own (it crashes, or it obeys a terminate signal); its
\* pipes close with it.
ProcExit ==
    /\ \E i \in ProcIds :
          /\ procs[i].status = "alive"
          /\ procs' = Reap([procs EXCEPT ![i] = Exited], Refs(_process, _task, st, sp))
    /\ UNCHANGED <<is_windows, overlap, disk, serverVars, callVars>> /\ last' = Quiet

\* A child closes its standard output and keeps running (seen by the loop of
\* start() that reads it).
ProcCloseStdout ==
    /\ \E i \in ProcIds :
          /\ procs[i].status = "alive" /\ procs[i].stdout = "open"
          /\ st.pc = "read" /\ st.proc = i
          /\ procs' = [procs EXCEPT ![i].stdout = "eof"]
    /\ UNCHANGED <<is_windows, overlap, disk, serverVars, callVars>> /\ last' = Quiet

\* ------------------------------------------------------------------------
\* Server.start

\* lines 356-358: the assertion, state = starting, and the await of
\* create_subprocess_exec
StartCall ==
    /\ st.pc = "idle" /\ MayCall
    /\ start_asserts(state)
    /\ state' = "starting"
    /\ st' = [pc |-> "spawn"]
    /\ last' = Quiet
    /\ UNCHANGED <<is_windows, overlap, disk, url, missing_resources, shares_catalog, all_resources, _python_cmd, _pip_cmd,
                   _comfy_dir, _process, _task, procs, inst, opt, sp>>

\* line 356: the assertion of start() fails
StartRefused == ~start_asserts(state) /\ Refused("start")

\* lines 361-365: the child is spawned, the field refers to it, and start()
\* goes on to read the child's output
StartSpawned ==
    /\ st.pc = "spawn" /\ AtAwait
    /\ _python_cmd # NoCmd
    /\ \E i \in ProcIds :
          /\ procs[i].status = "free"
          /\ \A j \in ProcIds : procs[j].status = "free" => i <= j
          /\ _process' = i
          /\ st' = [pc |-> "read", proc |-> i]
          /\ procs' = Reap([procs EXCEPT ![i] = NewProcess], Refs(i, _task, st', sp))
    /\ last' = Quiet
    /\ UNCHANGED <<is_windows, overlap, disk, state, url, missing_resources, shares_catalog, all_resources, _python_cmd,
                   _pip_cmd, _comfy_dir, _task, inst, opt, sp>>

\* lines 361-363: create_subprocess_exec raises (the interpreter cannot be
\* executed); nothing catches it
StartSpawnFails ==
    /\ st.pc = "spawn" /\ AtAwait
    /\ st' = Idle
    /\ last' = Ended("start", "raise", "spawn")
    /\ UNCHANGED <<is_windows, overlap, disk, serverVars, procs, inst, opt, sp>>

\* line 388: create_task(self.run()); run() forwards the streams of the child
\* the field refers to
create_task(process) == [created |-> TRUE, proc |-> process, cancelled |-> FALSE]

\* lines 365-371 and 388-389: one line of output is read
start_read_line(line) ==
    LET text == strip(line) IN
    IF is_ready_line(text)
    THEN /\ state' = "running"
         /\ url' = split_last(text, HTTP)
         /\ _task' = create_task(_process)
         /\ st' = Idle
         /\ last' = ReadLine(line, "return")
         /\ procs' = Reap(procs, Refs(_process, _task', st', sp))
    ELSE UNCHANGED <<state, url, _task, st, procs>> /\ last' = ReadLine(line, "")

StartReadLine ==
    /\ st.pc = "read" /\ AtAwait
    /\ procs[st.proc].stdout = "open"
    /\ \E line \in Lines : start_read_line(line)
    /\ UNCHANGED <<is_windows, overlap, disk, missing_resources, shares_catalog, all_resources, _python_cmd, _pip_cmd,
                   _comfy_dir, _process, inst, opt, sp>>

\* lines 365 and 373-376: the output ends; without a readiness line start()
\* goes on to self._process.communicate(), which raises on None
StartReadEOF ==
    /\ st.pc = "read" /\ AtAwait
    /\ procs[st.proc].stdout = "eof"
    /\ IF state = "running"
       THEN /\ _task' = create_task(_process)
            /\ st' = Idle
            /\ last' = Ended("start", "return", "")
       ELSE IF _process = NoProc
       THEN /\ st' = Idle
            /\ last' = Ended("start", "raise", "AttributeError")
            /\ UNCHANGED _task
       ELSE /\ st' = [pc |-> "communicate", proc |-> _process]
            /\ UNCHANGED <<_task>> /\ last' = Quiet
    /\ procs' = Reap(procs, Refs(_process, _task', st', sp))
    /\ UNCHANGED <<is_windows, overlap, disk, state, url, missing_resources, shares_catalog, all_resources, _python_cmd,
                   _pip_cmd, _comfy_dir, _process, inst, opt, sp>>

\* lines 377-379 and 383-386: communicate() ended within the timeout (the
\* child has exited)
StartDrained ==
    /\ st.pc = "communicate" /\ AtAwait
    /\ ~Alive(procs, st.proc)
    /\ state' = "stopped"
    /\ st' = Idle
    /\ IF _process = NoProc
       THEN /\ last' = Ended("start", "raise", "AttributeError")
            /\ UNCHANGED _process
       ELSE /\ _process' = NoProc
            /\ last' = Ended("start", "raise", "exited")
    /\ procs' = Reap(procs, Refs(_process', _task, st', sp))
    /\ UNCHANGED <<is_windows, overlap, disk, url, missing_resources, shares_catalog, all_resources, _python_cmd, _pip_cmd,
                   _comfy_dir, _task, inst, opt, sp>>

\* Process.kill(): the child is dead when the call returns to the loop
kill(ps, p) == [ps EXCEPT ![p] = Exited]

\* lines 380-386: wait_for timed out on a child that is still alive;
\* self._process.kill()
StartDrainTimeout ==
    /\ st.pc = "communicate" /\ AtAwait
    /\ Alive(procs, st.proc)
    /\ st' = Idle
    /\ IF _process = NoProc
       THEN /\ last' = Ended("start", "raise", "AttributeError")
            /\ UNCHANGED <<state, _process, procs>>
       ELSE /\ state' = "stopped"
            /\ _process' = NoProc
            /\ last' = Ended("start", "raise", "killed")
            /\ procs' = Reap(kill(procs, _process), Refs(NoProc, _task, st', sp))
    /\ UNCHANGED <<is_windows, overlap, disk, url, missing_resources, shares_catalog, all_resources, _python_cmd, _pip_cmd,
                   _comfy_dir, _task, inst, opt, sp>>

\* ------------------------------------------------------------------------
\* Server.stop and Server.terminate

\* Process.terminate() raises ProcessLookupError once the child has exited and
\* its transport is closed; None has no terminate().
terminate_raises(ps, p) == p = NoProc \/ ps[p].status # "alive"

\* lines 407-412: the assertion, terminate(), cancel(), and the await of
\* wait_for(communicate(), 5).  An exception other than TimeoutError passes
\* through the finally block (lines 417-420) to the caller.
StopCall ==
    /\ sp.pc = "idle" /\ MayCall
    /\ stop_asserts(state)
    /\ IF terminate_raises(procs, _process) \/ _task = NoTask
       THEN /\ state' = "stopped"
            /\ _process' = NoProc
            /\ _task' = NoTask
            /\ procs' = Reap(procs, Refs(NoProc, NoTask, st, sp))
            /\ last' = Ended("stop", "raise",
                             IF terminate_raises(procs, _process)
                             THEN "terminate" ELSE "cancel")
            /\ UNCHANGED sp
       ELSE /\ _task' = [_task EXCEPT !.cancelled = TRUE]
            /\ sp' = [pc |-> "wait", proc |-> _process]
            /\ UNCHANGED <<state, _process, procs>> /\ last' = Quiet
    /\ UNCHANGED <<is_windows, overlap, disk, url, missing_resources, shares_catalog, all_resources, _python_cmd, _pip_cmd,
                   _comfy_dir, inst, opt, st>>

\* line 407: the assertion of stop() fails
StopRefused == ~stop_asserts(state) /\ Refused("stop")

\* lines 412-420: the child exited within the timeout; line 413 reads
\* self._process.returncode
StopTerminated ==
    /\ sp.pc = "wait" /\ AtAwait
    /\ ~Alive(procs, sp.proc)
    /\ state' = "stopped"
    /\ _process' = NoProc
    /\ _task' = NoTask
    /\ sp' = Idle
    /\ last' = IF _process = NoProc THEN Ended("stop", "raise", "AttributeError")
               ELSE Ended("stop", "return", "terminated")
    /\ procs' = Reap(procs, Refs(NoProc, NoTask, st, sp'))
    /\ UNCHANGED <<is_windows, overlap, disk, url, missing_resources, shares_catalog, all_resources, _python_cmd, _pip_cmd,
                   _comfy_dir, inst, opt, st>>

\* lines 414-420: wait_for timed out; a warning, and the child is left alive
StopTimeout ==
    /\ sp.pc = "wait" /\ AtAwait
    /\ Alive(procs, sp.proc)
    /\ state' = "stopped"
    /\ _process' = NoProc
    /\ _task' = NoTask
    /\ sp' = Idle
    /\ last' = Ended("stop", "return", "timeout")
    /\ procs' = Reap(procs, Refs(NoProc, NoTask, st, sp'))
    /\ UNCHANGED <<is_windows, overlap, disk, url, missing_resources, shares_catalog, all_resources, _python_cmd, _pip_cmd,
                   _comfy_dir, inst, opt, st>>

\* terminate() lets what Process.terminate() raises reach its caller.
terminate_propagates(ps, p) ==
    IF p # NoProc /\ terminate_raises(ps, p) THEN "raise" ELSE "return"

\* lines 423-428: the try block catches every Exception, so terminate()
\* returns
terminate_ends(ps, p) == "return"

\* lines 422-428: without a handle nothing is done; with one the child is
\* signalled (it exits when it chooses to, see ProcExit) or the error of
\* signalling an exited child is printed.  Nothing is assigned.
Terminate ==
    /\ AtAwait
    /\ last' = Ended("terminate", terminate_ends(procs, _process),
                     IF _process = NoProc THEN "no handle"
                     ELSE IF terminate_raises(procs, _process) THEN "swallowed"
                     ELSE "signalled")
    /\ UNCHANGED <<is_windows, overlap, disk, serverVars, procs, callVars>>

\* ------------------------------------------------------------------------
\* Server.run, the supervising task

\* lines 394-404: gather() returns when both forward() loops are over, each
\* at the end of its stream; CancelledError is caught, so a cancelled task
\* ends as one that returned.  The task reads the streams of the child the
\* field referred to when the task was created; on a field that is None
\* line 400 raises, which ends the task as well.
run_over(task, ps) ==
    /\ task.created
    /\ \/ task.cancelled
       \/ task.proc = NoProc
       \/ ps[task.proc].stdout = "eof" /\ ps[task.proc].stderr = "eof"

\* The child whose output the task forwards closes one of its two streams
\* and keeps running.
ProcClosesStream ==
    /\ _task.created /\ _task.proc # NoProc
    /\ procs[_task.proc].status = "alive"
    /\ \E stream \in {"stdout", "stderr"} :
          /\ procs[_task.proc][stream] = "open"
          /\ procs' = [procs EXCEPT ![_task.proc][stream] = "eof"]
    /\ last' = Quiet
    /\ UNCHANGED <<is_windows, overlap, disk, serverVars, callVars>>

\* ------------------------------------------------------------------------
\* Filesystem effects of the installer

\* Files that lie inside a custom node folder.
FilesInNode(folder) ==
    {required_models[i].filename : i \in {j \in DOMAIN required_models :
                                             EnclosingNode(required_models[j]) = folder}}

\* shutil.rmtree(path, ignore_errors=True) of a directory
rmtree_dir(d, p) ==
    IF p = PathPython THEN [d EXCEPT !.dirs[PathPython] = "absent"]
    ELSE IF p = PathComfyUI
    THEN [d EXCEPT !.dirs[PathComfyUI] = "absent", !.dirs[PathComfyPy] = "absent",
                   !.nodes = {}, !.files = {}]
    ELSE d

\* shutil.rmtree of a custom node folder, with what lies inside it
rmtree_node(d, folder) ==
    [d EXCEPT !.nodes = @ \ {folder}, !.files = @ \ FilesInNode(folder)]

\* Path.mkdir(parents=True, exist_ok=True) of a directory below self.path
mkdir_root(d) ==
    [d EXCEPT !.dirs[PathRoot] = IF @ = "absent" THEN "partial" ELSE @]

\* target_folder.mkdir(parents=True, exist_ok=True) for a model resource:
\* every missing parent is created, a custom node folder included
mkdir_target(d, comfy_dir, r) ==
    LET d1 == mkdir_root(d)
        d2 == IF comfy_dir \in DOMAIN d1.dirs /\ d1.dirs[comfy_dir] = "absent"
              THEN [d1 EXCEPT !.dirs[comfy_dir] = "partial"] ELSE d1
    IN IF EnclosingNode(r) # None
       THEN [d2 EXCEPT !.nodes = @ \cup {EnclosingNode(r)}] ELSE d2

\* ------------------------------------------------------------------------
\* Server.install_optional

Packages == SUBSET {default_checkpoints[i].name : i \in DOMAIN default_checkpoints}

\* line 344-346: the next checkpoint after index k that is named in packages
\* and whose target file is absent; 0 when there is none
next_optional(d, packages, k) ==
    LET todo == {i \in DOMAIN default_checkpoints :
                    /\ i > k
                    /\ default_checkpoints[i].name \in packages
                    /\ ~FileExists(d, default_checkpoints[i])}
    IN IF todo = {} THEN 0 ELSE CHOOSE i \in todo : \A j \in todo : i <= j

\* Whether the loop reaches another checkpoint named in packages (line 345
\* then reads self._comfy_dir).
more_optional(packages, k) ==
    \E i \in DOMAIN default_checkpoints : i > k /\ default_checkpoints[i].name \in packages

\* lines 351-353: the finally block, then the end of the call
optional_finally(d, prev_state, result, info) ==
    /\ disk' = d
    /\ Probe(d)   \* self.state = prev_state is overwritten by check_install()
    /\ opt' = Idle
    /\ last' = Ended("install_optional", result, info)

\* lines 344-347 from index k on: up to the next await, or to the end; during
\* is the state while the call is suspended (line 336 sets it at the call)
optional_loop(d, packages, prev_state, k, during) ==
    IF more_optional(packages, k) /\ _comfy_dir = None
    THEN optional_finally(d, prev_state, "raise", "TypeError")
    ELSE IF next_optional(d, packages, k) = 0
    THEN optional_finally(d, prev_state, "return", "")
    ELSE /\ state' = during
         /\ opt' = [pc |-> "download", k |-> next_optional(d, packages, k),
                    packages |-> packages, prev_state |-> prev_state]
         /\ disk' = d
         /\ last' = Quiet
         /\ UNCHANGED <<missing_resources, shares_catalog, all_resources, _python_cmd, _pip_cmd, _comfy_dir>>

\* lines 333-347
InstallOptionalCall ==
    /\ opt.pc = "idle"
    /\ _comfy_dir # None
    /\ AtAwait
    /\ \E packages \in Packages :
          /\ MayCall \/ next_optional(disk, packages, 0) = 0
          /\ optional_loop(disk, packages, state, 0, "installing")
    /\ UNCHANGED <<is_windows, overlap, url, _process, _task, procs, inst, st, sp>>

\* line 333: the assertion of install_optional() fails
InstallOptionalRefused == _comfy_dir = None /\ Refused("install_optional")

\* line 347: the download of a checkpoint ends
InstallOptionalDownloaded ==
    /\ opt.pc = "download" /\ AtAwait
    /\ Exists(disk, ComfyDirOf(disk))
    /\ optional_loop([disk EXCEPT !.files = @ \cup {default_checkpoints[opt.k].filename}],
                     opt.packages, opt.prev_state, opt.k, state)
    /\ UNCHANGED <<is_windows, overlap, url, _process, _task, procs, inst, st, sp>>

\* lines 347-353: the download raises; what it wrote so far may stay
InstallOptionalDownloadFails ==
    /\ opt.pc = "download" /\ AtAwait
    /\ \E left \in {FALSE, Exists(disk, ComfyDirOf(disk))} :
          optional_finally(
              IF left THEN [disk EXCEPT !.files = @ \cup {default_checkpoints[opt.k].filename}]
              ELSE disk,
              opt.prev_state, "raise", "download")
    /\ UNCHANGED <<is_windows, overlap, url, _process, _task, procs, inst, st, sp>>

\* ------------------------------------------------------------------------
\* Server.install and Server._install

Step(pc, unit, i) == [pc |-> pc, unit |-> unit, i |-> i]

\* The order of the steps of _install (lines 228-251).
AfterUnit(unit, i) ==
    CASE unit = "python" -> Step("begin", "comfy", 0)
      [] unit = "comfy"  -> Step("begin", "node", 1)
      [] unit = "node"   -> IF i < Len(required_custom_nodes)
                            THEN Step("begin", "node", i + 1)
                            ELSE Step("begin", "model", 1)
      [] unit = "model"  -> IF i < Len(required_models)
                            THEN Step("begin", "model", i + 1)
                            ELSE Step("finish", "model", i)

\* The cache file an install step downloads to (lines 255, 285, 300).
Archive(unit, i) ==
    CASE unit = "python" -> "python-3.10.9-embed-amd64.zip"
      [] unit = "comfy"  -> "ComfyUI.zip"
      [] unit = "node"   -> required_custom_nodes[i].folder   \* f"{pkg.folder}.zip"

\* An installer that raises leaves the filesystem as it is.
cleanup_nothing(d, unit, i) == d

\* _install_if_missing, lines 492-494: the target directory is removed when the
\* installer raises.  The downloads of line 247 are not under it.
cleanup(d, unit, i) ==
    CASE unit = "python" -> rmtree_dir(d, PathPython)
      [] unit = "comfy"  -> rmtree_dir(d, PathComfyUI)
      [] unit = "node"   -> rmtree_node(d, required_custom_nodes[i].folder)
      [] unit = "model"  -> d

\* install, lines 325-330: state = stopped, check_install(), raise
install_raise(d, why) ==
    /\ disk' = d
    /\ Probe(d)
    /\ inst' = Idle
    /\ last' = Ended("install", "raise", why)

\* A step that raised is begun again with its download.
install_retry(d, why) ==
    /\ disk' = cleanup(d, inst.unit, inst.i)
    /\ inst' = Step("download", inst.unit, inst.i)
    /\ last' = Quiet
    /\ UNCHANGED <<state, missing_resources, shares_catalog, all_resources,
                   _python_cmd, _pip_cmd, _comfy_dir>>

\* A step raised inside _install_if_missing.
install_fail(d, why) == install_raise(cleanup(d, inst.unit, inst.i), why)

\* A step went through; the call goes on to next.
install_goes_on(d, next) ==
    /\ disk' = d
    /\ inst' = next
    /\ last' = Quiet
    /\ UNCHANGED <<state, missing_resources, shares_catalog, all_resources, _python_cmd, _pip_cmd, _comfy_dir>>

\* lines 312-316 and 221-233
InstallCall ==
    /\ inst.pc = "idle" /\ MayCall
    /\ install_asserts(state)
    /\ IF ~is_windows /\ (_python_cmd = NoCmd \/ _pip_cmd = NoCmd)
       THEN /\ last' = Ended("install", "raise", "Python not found")
            /\ UNCHANGED <<disk, state, _python_cmd, _pip_cmd, inst>>
       ELSE /\ state' = "installing"
            /\ disk' = mkdir_root(disk)
            /\ IF is_windows /\ (_comfy_dir = None \/ _python_cmd = NoCmd \/ _pip_cmd = NoCmd)
               THEN /\ _python_cmd' = <<PathPython, "python">>
                    /\ _pip_cmd' = <<PathPython, "Scripts/pip">>
                    /\ inst' = Step("begin", "python", 0)
               ELSE /\ inst' = Step("begin", "comfy", 0)
                    /\ UNCHANGED <<_python_cmd, _pip_cmd>>
            /\ last' = Quiet
    /\ UNCHANGED <<is_windows, overlap, url, missing_resources, shares_catalog, all_resources, _comfy_dir, _process, _task, procs,
                   opt, st, sp>>

\* line 312: the assertion of install() fails
InstallRefused == ~install_asserts(state) /\ Refused("install")

\* _install_if_missing line 489 for the step at hand, with line 235 before the
\* ComfyUI step and lines 239 and 243-246, which read self._comfy_dir
InstallBegin ==
    /\ inst.pc = "begin"
    /\ CASE inst.unit = "python" ->
              install_goes_on(disk, IF Exists(disk, PathPython)
                                    THEN AfterUnit("python", 0)
                                    ELSE Step("download", "python", 0))
         [] inst.unit = "comfy" ->
              LET dir == IF _comfy_dir = None THEN PathComfyUI ELSE _comfy_dir IN
              /\ _comfy_dir' = dir
              /\ disk' = disk
              /\ inst' = IF Exists(disk, dir) THEN AfterUnit("comfy", 0)
                         ELSE Step("download", "comfy", 0)
              /\ last' = Quiet
              /\ UNCHANGED <<state, missing_resources, shares_catalog, all_resources, _python_cmd, _pip_cmd>>
         [] inst.unit = "node" ->
              IF _comfy_dir = None THEN install_raise(disk, "TypeError")
              ELSE install_goes_on(disk,
                       IF NodeExists(disk, required_custom_nodes[inst.i])
                       THEN AfterUnit("node", inst.i)
                       ELSE Step("download", "node", inst.i))
         [] inst.unit = "model" ->
              IF _comfy_dir = None THEN install_raise(disk, "TypeError")
              ELSE IF FileExists(disk, required_models[inst.i])
              THEN install_goes_on(disk, AfterUnit("model", inst.i))
              ELSE install_goes_on(mkdir_target(disk, _comfy_dir, required_models[inst.i]),
                                   Step("download", "model", inst.i))
    /\ UNCHANGED <<is_windows, overlap, url, _process, _task, procs, opt, st, sp>>

\* A destination is never found.
archive_never_exists(d, archive) == FALSE

\* _download_cached, line 462: archive.exists(), for an archive of the cache
archive_exists(d, archive) == archive \in d.cache

\* _download_cached, lines 462-465: nothing is fetched when the destination
\* exists; a download that raises may leave what it wrote
InstallDownload ==
    /\ inst.pc = "download"
    /\ IF inst.unit = "model"
       THEN LET file == required_models[inst.i].filename IN
            \E outcome \in {"ok", "fails", "fails_partial"} :
               CASE outcome = "ok" ->
                      install_goes_on([disk EXCEPT !.files = @ \cup {file}],
                                      AfterUnit("model", inst.i))
                 [] outcome = "fails" -> install_raise(disk, "download")
                 [] outcome = "fails_partial" ->
                      install_raise([disk EXCEPT !.files = @ \cup {file}], "download")
       ELSE LET archive == Archive(inst.unit, inst.i) IN
            IF archive_exists(disk, archive)
            THEN install_goes_on(disk, Step("extract", inst.unit, inst.i))
            ELSE \E outcome \in {"ok", "fails", "fails_partial"} :
                   CASE outcome = "ok" ->
                          install_goes_on([disk EXCEPT !.cache = @ \cup {archive}],
                                          Step("extract", inst.unit, inst.i))
                     [] outcome = "fails" -> install_fail(disk, "download")
                     [] outcome = "fails_partial" ->
                          install_fail([disk EXCEPT !.cache = @ \cup {archive}], "download")
    /\ UNCHANGED <<is_windows, overlap, url, _process, _task, procs, opt, st, sp>>

\* _extract_archive, lines 468-471 (and the patch of python310._pth, lines
\* 261-264)
InstallExtract ==
    /\ inst.pc = "extract"
    /\ \E ok \in BOOLEAN :
          IF ~ok \/ (inst.unit # "python" /\ _comfy_dir = None)
          THEN install_fail(disk, "extract")
          ELSE IF inst.unit = "python"
          THEN install_goes_on([disk EXCEPT !.dirs[PathPython] = "complete"],
                               Step("download_pip", "python", 0))
          ELSE install_goes_on(disk, Step("rename", inst.unit, inst.i))
    /\ UNCHANGED <<is_windows, overlap, url, _process, _task, procs, opt, st, sp>>

\* _rename_extracted_folder, lines 506-512: raises when the archive did not
\* hold the folder expected; has_requirements is whether the custom node
\* ships a requirements.txt (line 307)
InstallRename ==
    /\ inst.pc = "rename"
    /\ \E ok \in BOOLEAN, has_requirements \in BOOLEAN :
          IF ~ok \/ _comfy_dir = None
          THEN install_fail(disk, "rename")
          ELSE IF inst.unit = "comfy"
          THEN install_goes_on([disk EXCEPT !.dirs[PathComfyUI] = "complete"],
                               Step("exec", "comfy", 0))
          ELSE install_goes_on(
                   [disk EXCEPT !.nodes = @ \cup {required_custom_nodes[inst.i].folder}],
                   IF has_requirements THEN Step("exec", "node", inst.i)
                   ELSE AfterUnit("node", inst.i))
    /\ UNCHANGED <<is_windows, overlap, url, _process, _task, procs, opt, st, sp>>

\* lines 266-268: get-pip.py is downloaded into the python directory
InstallDownloadPip ==
    /\ inst.pc = "download_pip"
    /\ \E ok \in BOOLEAN :
          IF ok THEN install_goes_on(disk, Step("exec_pip", "python", 0))
          ELSE install_fail(disk, "download")
    /\ UNCHANGED <<is_windows, overlap, url, _process, _task, procs, opt, st, sp>>

\* What _execute_process can meet: the spawn raises, or the child's output
\* ends and process.returncode is its exit code or, the child not yet reaped,
\* still None.
ExecOutcomes == {"spawn_error", "rc0", "rc0_unreaped", "rc1", "rc1_unreaped"}

\* _execute_process, line 483: raises unless process.returncode is 0
execute_raises(outcome) == outcome # "rc0"

\* lines 483-485: what the exception of _execute_process comes from; where
\* line 483 read None for an exit code not yet available, the code the child
\* goes on to exit with is kept
execute_why(outcome) ==
    IF outcome \in {"rc0_unreaped", "rc1_unreaped"} THEN outcome ELSE "execute"

\* lines 269, 277-280, 292 and 308
InstallExec ==
    /\ inst.pc \in {"exec_pip", "exec"}
    /\ \E outcome \in IF (IF inst.pc = "exec_pip" THEN _python_cmd ELSE _pip_cmd) = NoCmd
                        THEN {"spawn_error"} ELSE ExecOutcomes :
          IF execute_raises(outcome)
          THEN install_fail(disk, execute_why(outcome))
          ELSE install_goes_on(disk, IF inst.pc = "exec_pip" THEN Step("exec", "python", 0)
                                     ELSE AfterUnit(inst.unit, inst.i))
    /\ UNCHANGED <<is_windows, overlap, url, _process, _task, procs, opt, st, sp>>

\* lines 249-251: state = stopped, check_install(), and install() returns
InstallFinish ==
    /\ inst.pc = "finish"
    /\ disk' = disk
    /\ Probe(disk)
    /\ inst' = Idle
    /\ last' = Ended("install", "return", "")
    /\ UNCHANGED <<is_windows, overlap, url, _process, _task, procs, opt, st, sp>>

\* ------------------------------------------------------------------------
\* Specifications

MkDisk(root, comfy, py, programs, nodes, files) ==
    [dirs |-> (PathRoot :> root) @@ (PathComfyUI :> comfy) @@ (PathPython :> py)
              @@ (PathComfyPy :> "absent") @@ (PathEmbeded :> "absent"),
     programs |-> programs, nodes |-> nodes, files |-> files, cache |-> {}]

PartOfCatalog ==
    [nodes |-> {"comfyui_controlnet_aux", "IPAdapter-ComfyUI"},
     files |-> {"control_v11p_sd15_inpaint.safetensors", "ip-adapter_sd15.bin",
                "dreamshaper_8.safetensors"}]

Env(windows, d) == [is_windows |-> windows, disk |-> d]

\* The platform and the filesystem when the Server is constructed.  On
\* Windows: nothing installed, and a complete installation with an embedded
\* interpreter.  Elsewhere: nothing installed (with and without a system
\* interpreter), a ComfyUI with a part of the catalog, with all that is
\* required, and an empty directory in the place of ComfyUI.
InitEnvs ==
    { Env(TRUE,  MkDisk("absent", "absent", "absent", {}, {}, {})),
      Env(TRUE,  MkDisk("partial", "complete", "complete", {}, NodeFolders,
                        ModelFiles \cup CheckpointFiles)),
      Env(FALSE, MkDisk("absent", "absent", "absent", {}, {}, {})),
      Env(FALSE, MkDisk("absent", "absent", "absent", {"python", "pip"}, {}, {})),
      Env(FALSE, MkDisk("partial", "complete", "absent", {"python", "pip"},
                        PartOfCatalog.nodes, PartOfCatalog.files)),
      Env(FALSE, MkDisk("partial", "complete", "absent", {"python", "pip"},
                        NodeFolders, ModelFiles)),
      Env(FALSE, MkDisk("partial", "partial", "absent", {"python", "pip"}, {}, {})) }

Init ==
    /\ overlap = MaxWithInstall
    /\ \E e \in InitEnvs : is_windows = e.is_windows /\ Constructed(e.disk)

Next ==
    \/ InstallCall \/ InstallBegin \/ InstallDownload \/ InstallExtract
    \/ InstallRename \/ InstallDownloadPip \/ InstallExec \/ InstallFinish
    \/ InstallOptionalCall \/ InstallOptionalDownloaded \/ InstallOptionalDownloadFails
    \/ StartCall \/ StartSpawned \/ StartSpawnFails \/ StartReadLine \/ StartReadEOF
    \/ StartDrained \/ StartDrainTimeout
    \/ StopCall \/ StopTerminated \/ StopTimeout
    \/ ProcExit \/ ProcCloseStdout

Spec == Init /\ [][Next]_vars

\* The lifecycle of a backend that is installed, with calls that overlap: on
\* Windows a complete installation with an embedded interpreter, elsewhere a
\* ComfyUI with all that is required, and one with a part of the catalog.
RunEnvs ==
    { Env(TRUE,  MkDisk("partial", "complete", "complete", {}, NodeFolders,
                        ModelFiles \cup CheckpointFiles)),
      Env(FALSE, MkDisk("partial", "complete", "absent", {"python", "pip"},
                        NodeFolders, ModelFiles)),
      Env(FALSE, MkDisk("partial", "complete", "absent", {"python", "pip"},
                        PartOfCatalog.nodes, PartOfCatalog.files)) }

InitRun ==
    /\ overlap = MaxInFlight
    /\ \E e \in RunEnvs : is_windows = e.is_windows /\ Constructed(e.disk)

NextRun ==
    \/ InstallOptionalCall \/ InstallOptionalDownloaded \/ InstallOptionalDownloadFails
    \/ StartCall \/ StartSpawned \/ StartSpawnFails \/ StartReadLine \/ StartReadEOF
    \/ StartDrained \/ StartDrainTimeout
    \/ StopCall \/ StopTerminated \/ StopTimeout \/ Terminate
    \/ ProcExit \/ ProcCloseStdout

SpecRun == InitRun /\ [][NextRun]_vars

\* What the event loop guarantees to a suspended call of start() or stop():
\* it is resumed once what it awaits is over, that is when the spawn has
\* succeeded or failed, when the child's output has ended, and when the child
\* has exited or the timeout of wait_for has run out.  Nothing obliges the
\* owner to make a call, the child to print a line or to exit, or a download
\* to end.
FairRun ==
    /\ WF_vars(StartSpawned \/ StartSpawnFails)
    /\ WF_vars(StartReadEOF)
    /\ WF_vars(StartDrained \/ StartDrainTimeout)
    /\ WF_vars(StopTerminated \/ StopTimeout)

SpecRunFair == SpecRun /\ FairRun

\* The lifecycle of an installed backend whose child may close its output
\* streams one by one while the supervising task forwards them.
NextTask == NextRun \/ ProcClosesStream

SpecTask == InitRun /\ [][NextTask]_vars

\* Every call the owner of the Server can make, those that fail their
\* assertion and terminate() included: on Windows with nothing installed, and
\* elsewhere with a ComfyUI that has a part of the catalog.
CallEnvs ==
    { Env(TRUE,  MkDisk("absent", "absent", "absent", {}, {}, {})),
      Env(FALSE, MkDisk("partial", "complete", "absent", {"python", "pip"},
                        PartOfCatalog.nodes, PartOfCatalog.files)) }

InitCalls ==
    /\ overlap = MaxWithInstall
    /\ \E e \in CallEnvs : is_windows = e.is_windows /\ Constructed(e.disk)

NextCalls ==
    \/ Next
    \/ Terminate
    \/ InstallRefused \/ InstallOptionalRefused \/ StartRefused \/ StopRefused

SpecCalls == InitCalls /\ [][NextCalls]_vars

\* The installing calls on their own: install() and install_optional() from
\* every environment of Init, with no backend started or stopped.  Neither
\* start() nor stop() assigns anything an installation step reads (path,
\* _comfy_dir, _python_cmd and the folders on disk); they assign the state,
\* which only the assertion that opens install() reads.
NextInstall ==
    \/ InstallCall \/ InstallBegin \/ InstallDownload \/ InstallExtract
    \/ InstallRename \/ InstallDownloadPip \/ InstallExec \/ InstallFinish
    \/ InstallOptionalCall \/ InstallOptionalDownloaded \/ InstallOptionalDownloadFails

SpecInstall == Init /\ [][NextInstall]_vars

\* Every operation, with calls that overlap an install(): on Windows, a
\* ComfyUI in place with the required models, without the embedded
\* interpreter and without one custom node.
OverlapEnvs ==
    { Env(TRUE, MkDisk("partial", "complete", "absent", {},
                       NodeFolders \ {"comfyui-tooling-nodes"},
                       ModelFiles \cup {"dreamshaper_8.safetensors"})) }

InitOverlap ==
    /\ overlap = MaxInFlight
    /\ \E e \in OverlapEnvs : is_windows = e.is_windows /\ Constructed(e.disk)

SpecOverlap == InitOverlap /\ [][Next]_vars

TypeOK ==
    /\ overlap \in {MaxWithInstall, MaxInFlight}
    /\ state \in ServerState
    /\ DiskOK(disk)
    /\ _process \in ProcIds \cup {NoProc}

\* ------------------------------------------------------------------------
\* The probe on its own

\* The probe has just run on the disk as it is.
Probed == last.op \in {"__init__", "check_install"}

\* Server.check_install called by the owner of the Server (lines 168-218);
\* what it delivers records whether it follows a probe of the same snapshot
\* or a change of the filesystem.
CheckInstall ==
    /\ Probe(disk)
    /\ last' = Ended("check_install", "return",
                     IF Probed THEN "again" ELSE "after change")
    /\ UNCHANGED <<is_windows, overlap, disk, url, _process, _task, procs, callVars>>

SearchedDirs == {PathRoot, PathComfyUI, PathPython, PathComfyPy, PathEmbeded}

\* Every well formed filesystem snapshot (the two interpreter directories
\* searched last are absent or complete).
ProbeDisks ==
    {d \in [dirs : [SearchedDirs -> DirStatus], programs : SUBSET {"python", "pip"},
            nodes : SUBSET NodeFolders, files : SUBSET (ModelFiles \cup CheckpointFiles),
            cache : {{}}] :
        /\ DiskOK(d)
        /\ d.dirs[PathComfyPy] # "partial"
        /\ d.dirs[PathEmbeded] # "partial"}

InitProbe ==
    /\ overlap = MaxWithInstall
    /\ is_windows \in BOOLEAN
    /\ \E d \in ProbeDisks : Constructed(d)

\* Snapshots the filesystem is changed to behind the Server's back.
ChangedDisks == {e.disk : e \in InitEnvs}

\* What the probe looks at (lines 173-218: Path.exists and shutil.which) is
\* changed by something other than the Server; the Server's fields stay as
\* the last probe left them.
DiskChanges ==
    /\ \E d \in ChangedDisks : d # disk /\ disk' = d
    /\ last' = Quiet
    /\ UNCHANGED <<is_windows, overlap, serverVars, procs, callVars>>

NextProbe == CheckInstall \/ DiskChanges

SpecProbe == InitProbe /\ [][NextProbe]_vars

\* ------------------------------------------------------------------------
\* Properties of the probe (checked under SpecProbe)

BackendRootFound == _comfy_dir # None
InterpreterFound == _python_cmd # NoCmd /\ _pip_cmd # NoCmd

\* All custom node names, then all required model names, then all default
\* checkpoint names.
FullCatalog ==
    << "ControlNet Preprocessors", "IP-Adapter", "External Tooling Nodes",
       "ControlNet Inpaint", "CLIP Vision model", "IP-Adapter model",
       "Realistic Vision", "DreamShaper" >>

RequiredAbsent ==
    {required_custom_nodes[i].name :
        i \in {j \in DOMAIN required_custom_nodes :
                  required_custom_nodes[j].folder \notin disk.nodes}}
    \cup {required_models[i].name :
             i \in {j \in DOMAIN required_models :
                       required_models[j].filename \notin disk.files}}

OptionalAbsent ==
    {default_checkpoints[i].name :
        i \in {j \in DOMAIN default_checkpoints :
                  default_checkpoints[j].filename \notin disk.files}}

IndexIn(seq, x) == CHOOSE i \in DOMAIN seq : seq[i] = x

\* seq lists names of the catalog in the catalog's order, none twice.
InCatalogOrder(seq) ==
    /\ Range(seq) \subseteq Range(FullCatalog)
    /\ \A i, j \in DOMAIN seq :
          i < j => IndexIn(FullCatalog, seq[i]) < IndexIn(FullCatalog, seq[j])

\* C8 (amended): after a probe the state is not_installed, with the full
\* catalog as missing_resources, exactly when the backend root or the
\* interpreter (python and pip) is not found; when both are found the state is
\* decided by the required resources.
C8_NotInstalledUnlessBothFound ==
    Probed =>
       /\ state = "not_installed" <=> (~BackendRootFound \/ ~InterpreterFound)
       /\ state = "not_installed" => missing_resources = FullCatalog
       /\ (BackendRootFound /\ InterpreterFound) =>
             state = IF RequiredAbsent # {} THEN "missing_resources" ELSE "stopped"

\* C8 witness: a probe that finds the backend root and no interpreter.
C8_Witness ==
    /\ last.op = "check_install"
    /\ BackendRootFound /\ ~InterpreterFound
    /\ state = "not_installed" /\ missing_resources = FullCatalog

\* C8 as stated: not_installed exactly when neither the backend root nor an
\* interpreter is found.
C8_AsStated ==
    Probed =>
       /\ state = "not_installed" <=> (~BackendRootFound /\ ~InterpreterFound)
       /\ state = "not_installed" => missing_resources = FullCatalog

\* C9: with backend root and interpreter found, the state is
\* missing_resources exactly when a required custom node or model is absent,
\* and then missing_resources holds the absent required items followed by the
\* absent optional checkpoints, in catalog order, each once, no present item.
C9_MissingResourcesExact ==
    (Probed /\ BackendRootFound /\ InterpreterFound) =>
       /\ state = "missing_resources" <=> RequiredAbsent # {}
       /\ state = "missing_resources" =>
             /\ Range(missing_resources) = RequiredAbsent \cup OptionalAbsent
             /\ InCatalogOrder(missing_resources)

\* C9 witness: a custom node, a model and a checkpoint are absent, the rest is
\* present.
C9_Witness ==
    /\ last.op = "check_install"
    /\ state = "missing_resources"
    /\ missing_resources = <<"External Tooling Nodes", "ControlNet Inpaint", "DreamShaper">>

\* C10: with backend root and interpreter found and nothing required absent,
\* the state is stopped whatever optional checkpoints are present, and
\* missing_resources lists the absent ones.
C10_OptionalNeverClassifies ==
    (Probed /\ BackendRootFound /\ InterpreterFound /\ RequiredAbsent = {}) =>
       /\ state = "stopped"
       /\ Range(missing_resources) = OptionalAbsent
       /\ InCatalogOrder(missing_resources)

\* C10 witness: everything required is present and one checkpoint is absent.
C10_Witness ==
    /\ last.op = "check_install"
    /\ state = "stopped"
    /\ missing_resources = <<"Realistic Vision">>

\* ------------------------------------------------------------------------
\* Properties of the lifecycle (checked under Spec and SpecRun)

RestStates == {"not_installed", "missing_resources", "stopped", "running"}

\* C1: once no install(), install_optional() or start() call is in flight
\* (each has returned or raised), the state is a rest state, never installing
\* or starting.
C1_RestStateWhenNothingInFlight ==
    InFlight = {} => state \in RestStates

\* C2: when install_optional() returns or raises, the state is the state it
\* was called in.
C2_InstallOptionalRestoresState ==
    [][last'.op = "install_optional" =>
          state' = IF opt.pc = "idle" THEN state ELSE opt.prev_state]_vars

\* C3: the process handle and the supervising task are non-null only while
\* the state is starting or running.
C3_HandlesOnlyWhileStartingOrRunning ==
    (_process # NoProc \/ _task # NoTask) => state \in {"starting", "running"}

\* C4: when install() ends, by returning or by raising, the state is the
\* classification a fresh probe gives for the disk at that moment, it is not
\* installing, and it is stopped or missing_resources when install() returned.
C4_InstallEndsAsProbed ==
    last.op = "install" =>
       /\ state = check_install(disk).state
       /\ state # "installing"
       /\ last.result = "return" => state \in {"stopped", "missing_resources"}

\* The marker occurs in the line and http://<address> follows it.
HasMarkerThenAddress(line) ==
    \E i, j \in DOMAIN line : i < j /\ j < Len(line) /\ line[i] = MARKER /\ line[j] = HTTP

\* The <address> of such a line.
AddressOf(line) == line[(CHOOSE j \in DOMAIN line : line[j] = HTTP) + 1]

\* The marker is the first thing in the line that is not whitespace.
BeginsWithMarker(line) ==
    \E i \in DOMAIN line : line[i] = MARKER /\ \A j \in 1..(i - 1) : line[j] = SPACE

C6_StartFailsOnEndOfOutput ==
    [][/\ (st.pc = "read" /\ procs[st.proc].stdout = "eof" /\ st' # st) =>
             /\ st'.pc = "communicate"
             /\ state' # "running"
             /\ _task' = _task
       /\ (st.pc = "communicate" /\ st' # st) =>
             /\ st' = Idle
             /\ last'.op = "start" /\ last'.result = "raise"
             /\ last'.why = IF Alive(procs, st.proc) THEN "killed" ELSE "exited"
             /\ state' = "stopped"
             /\ _process' = NoProc
             /\ _task' = _task
             /\ ~Alive(procs', st.proc)]_vars

\* C7: stop() never raises; it returns with the state stopped and both
\* handles cleared.
C7_StopNeverRaises ==
    last.op = "stop" =>
       /\ last.result = "return"
       /\ state = "stopped"
       /\ _process = NoProc /\ _task = NoTask

\* ------------------------------------------------------------------------
\* Properties settled in the second round

\* The fields check_install assigns.
ProbedFields == <<state, missing_resources, _comfy_dir, _python_cmd, _pip_cmd>>

\* What a newly constructed Server holds in those fields on the snapshot d.
FreshProbe(d) ==
    LET r == check_install(d) IN
    <<r.state, r.missing_resources, r._comfy_dir, r._python_cmd, r._pip_cmd>>

\* C11: check_install() leaves in state, missing_resources and the resolved
\* paths what a newly constructed Server gets on the same filesystem
\* snapshot, whatever those fields held before; called right after a probe of
\* the same snapshot it changes none of them; it never changes the
\* module-level catalog list, and it does not touch the filesystem.
C11_ProbeDependsOnDiskOnly ==
    [][last'.op = "check_install" =>
          /\ ProbedFields' = FreshProbe(disk')
          /\ Probed => ProbedFields' = ProbedFields
          /\ all_resources' = FullCatalog /\ all_resources' = all_resources
          /\ disk' = disk]_vars

\* C11 witness: a probe that followed a change of the filesystem found
\* everything installed, with the module-level list as it was defined.
C11_Witness ==
    /\ last.op = "check_install" /\ last.why = "after change"
    /\ state = "stopped" /\ missing_resources = <<>>
    /\ all_resources = FullCatalog

\* The install steps that create a directory.
DirUnits == {"python", "comfy", "node"}

\* The directory the step for unit (custom node i) creates exists on d.
TargetExists(d, unit, i) ==
    CASE unit = "python" -> d.dirs[PathPython] # "absent"
      [] unit = "comfy"  -> d.dirs[PathComfyUI] # "absent"
      [] unit = "node"   -> required_custom_nodes[i].folder \in d.nodes

\* C12: when a step of install() that creates a directory (the embedded
\* interpreter, the backend root, a custom node folder) raises, then as
\* install() raises the directory does not exist, the probe reports the item
\* missing (not_installed for the interpreter and the backend root, the
\* node's name in missing_resources) and leaves a state install() may be
\* called in; and an install() that comes to a step whose directory does not
\* exist attempts it, beginning with the download.
C12_FailedStepLeavesNoDirectory ==
    [][/\ (inst.pc # "idle" /\ inst.unit \in DirUnits
            /\ last'.op = "install" /\ last'.result = "raise") =>
             /\ ~TargetExists(disk', inst.unit, inst.i)
             /\ state' \in {"not_installed", "missing_resources"}
             /\ IF inst.unit = "node"
                THEN \E k \in DOMAIN missing_resources' :
                        missing_resources'[k] = required_custom_nodes[inst.i].name
                ELSE state' = "not_installed"
       /\ (inst.pc = "begin" /\ inst.unit \in DirUnits /\ inst' # inst
            /\ inst'.pc # "idle" /\ ~TargetExists(disk, inst.unit, inst.i)) =>
             inst' = Step("download", inst.unit, inst.i)]_vars

\* C12 witness: install() has raised in the subprocess step of the second
\* custom node, after its folder was put in place: the archive is cached, the
\* folder is gone, the node is reported missing and the first node is there.
C12_Witness ==
    /\ last.op = "install" /\ last.result = "raise" /\ last.why = "execute"
    /\ "IPAdapter-ComfyUI" \in disk.cache
    /\ "comfyui_controlnet_aux" \in disk.nodes
    /\ "IPAdapter-ComfyUI" \notin disk.nodes
    /\ state = "missing_resources"
    /\ \E k \in DOMAIN missing_resources : missing_resources[k] = "IP-Adapter"

\* The directory or file the step for unit (item i) installs exists on d;
\* comfy_dir is self._comfy_dir as the step finds it.
StepTargetExists(d, unit, i, comfy_dir) ==
    CASE unit = "comfy" -> d.dirs[IF comfy_dir = None THEN PathComfyUI ELSE comfy_dir] # "absent"
      [] unit = "model" -> required_models[i].filename \in d.files
      [] OTHER          -> TargetExists(d, unit, i)

\* The points of install() at which a step downloads, extracts, renames or
\* runs a subprocess.
WorkPcs == {"download", "extract", "rename", "download_pip", "exec_pip", "exec"}

\* C13: in every install() run, a step that finds its target directory or
\* file on the disk downloads, extracts, renames and executes nothing and
\* leaves the disk as it is (the run goes on to the step after it), and a
\* step that does begin its work found its target absent.
C13_StepsSkipExistingTargets ==
    [][(inst.pc = "begin" /\ inst' # inst) =>
          /\ StepTargetExists(disk, inst.unit, inst.i, _comfy_dir) =>
                /\ inst'.pc \notin WorkPcs
                /\ inst'.pc # "idle" => inst' = AfterUnit(inst.unit, inst.i)
                /\ disk' = disk
          /\ inst'.pc \in WorkPcs =>
                /\ inst' = Step("download", inst.unit, inst.i)
                /\ ~StepTargetExists(disk, inst.unit, inst.i, _comfy_dir)]_vars

\* C13 witness: install() is past the first custom node, whose folder is on
\* the disk and whose archive was never downloaded, and is about to look at
\* the second.
C13_Witness ==
    /\ inst = Step("begin", "node", 2)
    /\ state = "installing"
    /\ "comfyui_controlnet_aux" \in disk.nodes
    /\ "comfyui_controlnet_aux" \notin disk.cache

\* The step is one in which the call op goes past its assertion: it suspends,
\* or it ends in the same step otherwise than by AssertionError.
Proceeds(op, before, after) ==
    /\ before.pc = "idle"
    /\ after.pc # "idle" \/ (last'.op = op /\ last'.why # "AssertionError")

\* C14: install() goes past its assertion only in not_installed or
\* missing_resources, start() only in stopped or missing_resources, stop()
\* only in running; a call that fails its assertion was made in another state
\* and leaves state, process handle, task, url and disk as they were.
C14_CallsGuardedByState ==
    [][/\ Proceeds("install", inst, inst') =>
             state \in {"not_installed", "missing_resources"}
       /\ Proceeds("start", st, st') => state \in {"stopped", "missing_resources"}
       /\ Proceeds("stop", sp, sp') => state = "running"
       /\ last'.why = "AssertionError" =>
             /\ last'.result = "raise"
             /\ CASE last'.op = "install" ->
                        state \notin {"not_installed", "missing_resources"}
                  [] last'.op = "start" -> state \notin {"stopped", "missing_resources"}
                  [] last'.op = "stop" -> state # "running"
                  [] OTHER -> TRUE
             /\ state' = state /\ _process' = _process /\ _task' = _task
             /\ url' = url /\ disk' = disk]_vars

\* C14 witness: start() called while the backend is running has failed its
\* assertion; the state is running and the handles are in place.
C14_Witness ==
    /\ last = Ended("start", "raise", "AssertionError")
    /\ state = "running"
    /\ _process # NoProc /\ _task # NoTask

\* C15: the state changes only along the edges of the lifecycle machine:
\* install() enters installing only from not_installed or missing_resources,
\* starting is entered only from stopped or missing_resources, running is
\* entered only from starting and only when start() reads the readiness line,
\* and a stop() that went past its assertion ends with the state stopped.
C15_StateFollowsLifecycle ==
    [][/\ (state' = "installing" /\ inst.pc = "idle" /\ inst'.pc # "idle") =>
             state \in {"not_installed", "missing_resources"}
       /\ (state' = "starting" /\ state # "starting") =>
             state \in {"stopped", "missing_resources"}
       /\ (state' = "running" /\ state # "running") =>
             /\ state = "starting"
             /\ last'.op = "start" /\ last'.line # NoLine
       /\ (last'.op = "stop" /\ last'.why # "AssertionError") =>
             state' = "stopped"]_vars

\* C16: after terminate() has returned the Server holds no process handle
\* and no supervising task; and once the backend process the handle refers to
\* has exited while the state is running, the Server comes to hold neither a
\* handle nor a task for that process.
C16_HandleDestroyed ==
    /\ [](last.op = "terminate" => (_process = NoProc /\ _task = NoTask))
    /\ \A p \in ProcIds :
          (state = "running" /\ _process = p /\ procs[p].status = "exited")
             ~> (_process # p /\ _task.proc # p)

\* C17: a start() that is reading the output of its backend comes to an
\* end with the state no longer starting, also when the backend keeps its
\* output open and never prints the readiness line; and every start() call
\* comes to an end with the state running or stopped.
C17_StartEnds ==
    /\ (st.pc = "read" /\ state = "starting") ~> (st.pc = "idle" /\ state # "starting")
    /\ (st.pc # "idle") ~> (st.pc = "idle" /\ state \in {"running", "stopped"})

\* C18: terminate() returns, never raises, in whatever state it is called;
\* it leaves the state field as it was, and without a process handle it
\* changes nothing at all.
C18_TerminateNeverRaises ==
    [][last'.op = "terminate" =>
          /\ last'.result = "return"
          /\ state' = state
          /\ _process = NoProc =>
                /\ last'.why = "no handle"
                /\ UNCHANGED <<disk, serverVars, procs, callVars>>]_vars

\* C18 witness: terminate() has returned in state running although the
\* backend process had exited, so that signalling it raised.
C18_Witness ==
    /\ last = Ended("terminate", "return", "swallowed")
    /\ state = "running"
    /\ _process # NoProc /\ procs[_process].status = "exited"

\* The place of a point of install() in the order of lines 228-251: the
\* interpreter, the backend root, the custom nodes, the models, and within
\* each the download, the extraction, the renaming and the subprocesses.
StepRank(c) ==
    LET unit == CASE c.unit = "python" -> 0
                  [] c.unit = "comfy"  -> 1
                  [] c.unit = "node"   -> 1 + c.i
                  [] c.unit = "model"  -> 1 + Len(required_custom_nodes) + c.i
        pc   == CASE c.pc = "begin"        -> 0
                  [] c.pc = "download"     -> 1
                  [] c.pc = "extract"      -> 2
                  [] c.pc = "rename"       -> 3
                  [] c.pc = "download_pip" -> 3
                  [] c.pc = "exec_pip"     -> 4
                  [] c.pc = "exec"         -> 5
                  [] c.pc = "finish"       -> 6
    IN 10 * unit + pc

\* C19: within one install() call every step moves forward in the order of
\* the installation, so that no download, extraction or subprocess is
\* attempted twice; and the step in which something fails is the one in which
\* install() raises: the call is over, and of what later steps install
\* nothing has been downloaded or put in place.
C19_NoRetryFirstFailureAborts ==
    [][(inst.pc # "idle" /\ inst' # inst) =>
          /\ inst'.pc # "idle" =>
                /\ StepRank(inst') > StepRank(inst)
                /\ last' = Quiet
          /\ inst'.pc = "idle" =>
                /\ last'.op = "install"
                /\ last'.result = "raise" =>
                      /\ disk'.nodes \subseteq disk.nodes
                      /\ disk'.cache \subseteq disk.cache \cup
                            (IF inst.unit = "model" THEN {}
                             ELSE {Archive(inst.unit, inst.i)})
                      /\ disk'.files \subseteq disk.files \cup
                            (IF inst.unit = "model"
                             THEN {required_models[inst.i].filename} ELSE {})]_vars

\* C19 witness: install() has raised in the extraction of the first custom
\* node: its archive is cached, and no other custom node and no model has
\* been downloaded or put in place.
C19_Witness ==
    /\ last = Ended("install", "raise", "extract")
    /\ inst = Idle
    /\ disk.dirs[PathComfyUI] = "complete"
    /\ "comfyui_controlnet_aux" \in disk.cache
    /\ "IPAdapter-ComfyUI" \notin disk.cache
    /\ "comfyui-tooling-nodes" \notin disk.cache
    /\ disk.nodes = {} /\ disk.files = {}

\* The step is one of install_optional(): the call is made, or it goes on
\* after a download.
OptionalStep == opt' # opt \/ (last'.op = "install_optional" /\ last'.result # "")

\* The files of the optional checkpoints named in packages.
NamedCheckpointFiles(packages) ==
    {default_checkpoints[i].filename :
        i \in {j \in DOMAIN default_checkpoints : default_checkpoints[j].name \in packages}}

\* C20: install_optional() goes past its assertion only when the backend
\* root is present, on the disk and in the Server's fields; the call itself
\* writes nothing, and the end of a download adds at most the file of the
\* checkpoint being downloaded, which is named in packages and was absent; no
\* directory, custom node, required model, cached archive or program is
\* created, changed or removed.
C20_InstallOptionalOnlyNamedCheckpoints ==
    [][OptionalStep =>
          /\ (opt.pc = "idle" /\ last'.why # "AssertionError") =>
                /\ _comfy_dir # None
                /\ _find_component(disk, comfy_search_paths) # None
          /\ last'.why = "AssertionError" => (_comfy_dir = None /\ opt' = opt)
          /\ disk'.dirs = disk.dirs /\ disk'.nodes = disk.nodes
          /\ disk'.cache = disk.cache /\ disk'.programs = disk.programs
          /\ disk.files \subseteq disk'.files
          /\ opt.pc = "idle" => disk' = disk
          /\ opt.pc # "idle" =>
                /\ disk'.files \ disk.files \subseteq
                      {default_checkpoints[opt.k].filename}
                /\ disk'.files \ disk.files \subseteq
                      NamedCheckpointFiles(opt.packages)]_vars

\* ------------------------------------------------------------------------
\* Properties settled in the third round

\* C21: no step of install() or install_optional() removes a file of the
\* cache, so an archive that a download left there, complete or not, is
\* there in every later install() run; an install() that comes to the
\* download of an archive that is in the cache fetches nothing, cannot fail
\* in that download, leaves the disk as it is and goes on to extract what is
\* there; and a required model whose file is at its destination is not
\* downloaded.
C21_CachedDownloadReused ==
    [][/\ disk.cache \subseteq disk'.cache
       /\ (inst.pc = "download" /\ inst.unit # "model" /\ inst' # inst
            /\ Archive(inst.unit, inst.i) \in disk.cache) =>
             /\ inst' = Step("extract", inst.unit, inst.i)
             /\ disk' = disk
             /\ last' = Quiet
       /\ (inst.pc = "begin" /\ inst.unit = "model" /\ inst' # inst
            /\ required_models[inst.i].filename \in disk.files) =>
             /\ inst'.pc # "download"
             /\ disk' = disk]_vars

\* C21 witness: an install() run has come to the download of the archive of
\* ComfyUI, which an earlier run left in the cache, the backend root being
\* absent still.
C21_Witness ==
    /\ inst = Step("download", "comfy", 0)
    /\ state = "installing"
    /\ "ComfyUI.zip" \in disk.cache
    /\ disk.dirs[PathComfyUI] = "absent"

\* C22: while an install() call is in flight the state is installing, and
\* while a start() call is in flight the state is starting, at every point
\* at which the call is suspended, whatever other calls are made meanwhile
\* (so that an install(), start() or stop() made meanwhile fails its
\* assertion).
C22_StateHeldWhileInFlight ==
    /\ inst.pc # "idle" => state = "installing"
    /\ st.pc # "idle" => state = "starting"

\* C23: a start() that returns has created a supervising task on the streams
\* of the child the handle refers to; whenever that task exists it is over
\* once either stream of its child has ended or it has been cancelled; and a
\* stop() that goes past its assertion while a task is held cancels the task.
C23_SupervisingTaskEnds ==
    [][/\ (last'.op = "start" /\ last'.result = "return") =>
             /\ _task'.created /\ ~_task'.cancelled
             /\ _task'.proc = _process' /\ _process' # NoProc
       /\ (_task'.created /\ _task'.proc # NoProc
            /\ (_task'.cancelled \/ procs'[_task'.proc].stdout = "eof"
                                 \/ procs'[_task'.proc].stderr = "eof")) =>
             run_over(_task', procs')
       /\ (Proceeds("stop", sp, sp') /\ _task.created) =>
             /\ sp'.pc = "wait"
             /\ _task'.cancelled /\ run_over(_task', procs')]_vars

\* C24: install() raises out of a dependency-install subprocess step only
\* when the subprocess could not be spawned or exited with a non-zero code,
\* never for a subprocess that exits with code 0, whether or not that code
\* was available when the output ended.
C24_SubprocessFailsOnlyOnNonZeroExit ==
    [][(inst.pc \in {"exec_pip", "exec"} /\ inst'.pc = "idle") =>
          /\ last'.op = "install" /\ last'.result = "raise"
          /\ last'.why \in {"execute", "rc1_unreaped"}]_vars

\* The step install() begins with (lines 228-235): the embedded interpreter
\* on Windows when the backend root or the interpreter is not resolved, the
\* backend root otherwise.
FirstStep ==
    IF is_windows /\ (_comfy_dir = None \/ _python_cmd = NoCmd \/ _pip_cmd = NoCmd)
    THEN Step("begin", "python", 0) ELSE Step("begin", "comfy", 0)

\* The items before and after are the same item of the installation.
SameItem(before, after) == before.unit = after.unit /\ before.i = after.i

\* C25: install() begins with the embedded interpreter when it is needed and
\* with the backend root otherwise; each step of it moves forward within the
\* item at hand or, that item being complete, begins the item that follows
\* it in the order interpreter, backend root, custom nodes in catalog order,
\* models in catalog order; the state is installing as long as the call is
\* in flight; and the fields the probe assigns are assigned by no step
\* before the one in which install() ends, which for an install() that
\* returns is the step after the last model.
C25_InstallStepsInOrder ==
    [][/\ inst.pc # "idle" => state = "installing"
       /\ (inst.pc = "idle" /\ inst'.pc # "idle") =>
             /\ inst' = FirstStep
             /\ state' = "installing"
       /\ (inst.pc # "idle" /\ inst'.pc # "idle" /\ inst' # inst) =>
             /\ StepRank(inst') > StepRank(inst)
             /\ SameItem(inst, inst') \/ inst' = AfterUnit(inst.unit, inst.i)
             /\ missing_resources' = missing_resources
             /\ state' = state
       /\ (last'.op = "install" /\ last'.result = "return") =>
             /\ inst = Step("finish", "model", Len(required_models))
             /\ inst' = Idle]_vars

\* C26: the state becomes running only as start() reads a readiness line,
\* with url set to the address of that line and the handle referring to the
\* child the line was read from; and as long as the state is running, url is
\* set and it and the handle stay as they are.
C26_UrlOfProcessHeld ==
    [][/\ state' = "running" => (url' # NoUrl /\ _process' # NoProc)
       /\ (state' = "running" /\ state # "running") =>
             /\ last'.op = "start" /\ last'.line # NoLine
             /\ url' = <<AddressOf(last'.line)>>
             /\ st.pc = "read" /\ _process' = st.proc
       /\ (state' = "running" /\ state = "running") =>
             (url' = url /\ _process' = _process)]_vars

\* C27: every child that start() spawned and that is alive is the one the
\* process handle refers to, so at most one backend child is alive.
C27_AtMostOneChildAlive ==
    /\ \A i \in ProcIds : procs[i].status = "alive" => i = _process
    /\ Cardinality({i \in ProcIds : procs[i].status = "alive"}) <= 1

\* C28: whenever no call is in flight and the state is stopped, no required
\* custom node and no required model is absent from the disk, so the state
\* is the one check_install() would give.
C28_StoppedMeansNothingMissing ==
    (InFlight = {} /\ state = "stopped") =>
       /\ missing_required(disk) = <<>>
       /\ check_install(disk).state = "stopped"

\* C29: whenever the state is stopped, missing_resources, starting or
\* running, the backend root, the interpreter and the package installer are
\* resolved (has_comfy and has_python), so that start() has an interpreter
\* and a working directory to spawn the backend with.
C29_ResolvedUnlessNotInstalled ==
    state \in {"stopped", "missing_resources", "starting", "running"} =>
       /\ _comfy_dir # None
       /\ _python_cmd # NoCmd /\ _pip_cmd # NoCmd

\* The names of the optional checkpoints.
OptionalNames == {default_checkpoints[i].name : i \in DOMAIN default_checkpoints}

\* C30: when install() has returned, every required custom node folder and
\* every required model file is on the disk, the state is stopped, and
\* missing_resources names optional checkpoints only.
C30_InstallReturnsInstalled ==
    (last.op = "install" /\ last.result = "return") =>
       /\ NodeFolders \subseteq disk.nodes
       /\ ModelFiles \subseteq disk.files
       /\ state = "stopped"
       /\ Range(missing_resources) \subseteq OptionalNames

====
